---- MODULE Spec2Model ----
(***************************************************************************)
(* OptimizePipeline (automl/main.py): the model catalog                    *)
(* (models, estimator_space, _child_iters), the nested parent/child        *)
(* optimization loop driven by fit, the run ledger (parent_suggestions,    *)
(* metrics, val_scores_, child_val_scores_) and the best-pipeline queries. *)
(*                                                                         *)
(* Floats are integers in units of 1e-5 (One is 1.0) plus three special    *)
(* values NaN, PInf and NInf that follow the IEEE rules the code relies    *)
(* on: every comparison with NaN is false, NaN differs from itself.        *)
(***************************************************************************)
EXTENDS Integers, Sequences, FiniteSets, TLC

\* ------------------------------------------------------------------ bounds
ParentIterations == 2      \* constructor argument parent_iterations
ChildIterations == 1       \* constructor argument child_iterations
MaxChildBudget == 2        \* largest budget given to change_child_iteration
MaxFits == 2               \* number of fit calls explored
MaxCatalogOps == 2         \* catalog calls explored when only the catalog is exercised
MaxArgLen == 2             \* models named in one catalog call
MaxRunOps == 1             \* catalog calls explored around fit calls
MaxQueries == 2            \* queries explored

\* ------------------------------------------------------------------ floats
NaN == 2000000000
PInf == 1000000000
NInf == -1000000000
One == 100000

IsNaN(v) == v = NaN
IsFinite(v) == v \notin {NaN, PInf, NInf}
\* 1.0 - v
OneMinus(v) ==
    IF IsNaN(v) THEN NaN
    ELSE IF v = PInf THEN NInf
    ELSE IF v = NInf THEN PInf
    ELSE One - v
\* round(v, 4): to the nearest multiple of 1e-4; non-finite values unchanged
Round4(v) == IF IsFinite(v) THEN ((v + 5) \div 10) * 10 ELSE v
\* round(v, 3): to the nearest multiple of 1e-3
Round3(v) == IF IsFinite(v) THEN ((v + 50) \div 100) * 100 ELSE v
\* IEEE comparisons: false as soon as one side is NaN
FLt(a, b) == ~IsNaN(a) /\ ~IsNaN(b) /\ a < b
FEq(a, b) == ~IsNaN(a) /\ ~IsNaN(b) /\ a = b

\* ------------------------------------------------------------ OrderedDict
\* an OrderedDict is the sequence of its <<key, value>> items in insertion order
ODKeys(od) == {od[i][1] : i \in DOMAIN od}
ODHas(od, k) == k \in ODKeys(od)
ODGet(od, k) == od[CHOOSE i \in DOMAIN od : od[i][1] = k][2]
ODValues(od) == [i \in DOMAIN od |-> od[i][2]]
\* od[k] = v: an existing key keeps its position, a new key goes last
ODSet(od, k, v) ==
    IF ODHas(od, k)
    THEN [i \in DOMAIN od |-> IF od[i][1] = k THEN <<k, v>> ELSE od[i]]
    ELSE Append(od, <<k, v>>)

Range(s) == {s[i] : i \in DOMAIN s}
Max(S) == CHOOSE x \in S : \A y \in S : y <= x
Min(S) == CHOOSE x \in S : \A y \in S : x <= y

\* ----------------------------------------------------------- collaborators
\* keys of regression_space(): the models that have a default space
KnownModels == {"A", "B"}
ModelIds == KnownModels \cup {"X"}
DefaultSpace == "dflt"
\* spaces a caller passes to add_model / update_model_space
CallerSpaces == {"s1", "s2"}

\* the metrics the Metrics class computes, with ai4water's MATRIC_TYPES for them
MetricNames == {"mse", "r2"}
\* a name that is no method of the Metrics class and no key of MATRIC_TYPES
UnknownMetric == "nometric"
MATRIC_TYPES == [m \in MetricNames |-> IF m = "mse" THEN "min" ELSE "max"]

\* the transformation names
DEFAULT_TRANSFORMATIONS == <<"minmax", "box-cox", "log", "log10", "sqrt", "none">>
DEFAULT_Y_TRANFORMATIONS == <<"log", "log10", "sqrt", "none">>
\* a name that is in neither list
UnknownTransform == "notatransform"
\* model_kwargs['input_features'], model_kwargs['output_features'] and the
\* constructor argument inputs_to_transform
InputFeatures == <<"x1", "x2">>
OutputFeatures == <<"y">>
InputsToTransform == <<"x1">>
\* a transformations argument: None, a list of names, or a dict of one feature
\* to the list of names for that feature
TNone == [kind |-> "None", feature |-> "", names |-> <<>>]
TList(names) == [kind |-> "list", feature |-> "", names |-> names]
TDict(feature, names) == [kind |-> "dict", feature |-> feature, names |-> names]
\* the arguments input_transformations, outputs_to_transform and
\* output_transformations: their defaults, and the values explored
DefaultTransforms ==
    [input_transformations |-> TNone, outputs_to_transform |-> <<>>,
     output_transformations |-> TNone]
TransformArgs ==
    [input_transformations :
        { TNone, TList(<<"minmax", "none">>), TList(<<UnknownTransform>>),
          TDict("x1", <<"log", "none">>), TDict("x1", <<UnknownTransform>>) },
     outputs_to_transform : { <<>>, OutputFeatures },
     output_transformations :
        { TNone, TList(<<"log">>), TList(<<"minmax">>),
          TDict("y", <<"log", "none">>), TDict("y", <<"minmax">>) }]

\* what the metric collaborator computes on one trained model's validation
\* predictions: one value per metric
Good == [mse |-> 4, r2 |-> 90000]
Degenerate == [mse |-> NaN, r2 |-> NaN]
TrialOutcomes ==
    { Good,
      [mse |-> 3, r2 |-> 90004],
      [mse |-> 50000, r2 |-> 10000],
      Degenerate,
      [mse |-> PInf, r2 |-> NInf] }
\* what Model.cross_val_score may return
CvScores == {4, NaN}

VARIABLES
    cfg,                 \* constructor arguments eval_metric, cv_parent_hpo, cv_child_hpo
    models,              \* self.models
    estimator_space,     \* self.estimator_space
    child_iters,         \* self._child_iters
    optimize_estimator,  \* self._optimize_estimator
    estimator_,          \* self._estimator
    metrics,             \* self.metrics
    parent_suggestions,  \* self.parent_suggestions
    val_scores_,         \* self.val_scores_
    child_val_scores_,   \* self.child_val_scores_
    parent_iter_,        \* self.parent_iter_
    child_iter_,         \* self.child_iter_
    optimizer,           \* number of the fit whose HyperOpt is self.optimizer, 0: not set
    saved,               \* number of the fit whose results save_results persisted, 0: none
    pc,                  \* where the caller / the running fit is
    suggestion,          \* suggestions['estimator'] of the running parent trial
    suggestions,         \* the suggestions of the running parent trial, in their order
    cur,                 \* the estimator resolved by the running parent trial
    nfits,               \* fit calls so far
    nops,                \* catalog calls so far
    last,                \* the last call: its name, how it ended, the models it named
    param_space,         \* the dimensions space() returned to the running or last fit
    answer,              \* the last query: its name, its arguments, what it returned
    nqueries             \* queries so far

catalog == <<models, estimator_space, child_iters>>
vars == <<cfg, models, estimator_space, child_iters, optimize_estimator, estimator_,
          metrics, parent_suggestions, val_scores_, child_val_scores_, parent_iter_,
          child_iter_, optimizer, saved, pc, suggestion, suggestions, cur, nfits, nops,
          last, param_space, answer, nqueries>>

\* ------------------------------------------------------------------ scopes
\* What one specification explores: the number of fit and catalog calls, the
\* number of models one catalog call names, the outcomes a parent and a child
\* trial may have, and the transformations the Trial Optimizer suggests where
\* the dimension of a feature has them.
CatalogScope ==
    [fits |-> 0, ops |-> MaxCatalogOps, arglen |-> MaxArgLen,
     spaces |-> CallerSpaces, outcomes |-> {}, child_outcomes |-> {}, queries |-> 0,
     methods |-> {"none"}]
RunScope ==
    [fits |-> MaxFits, ops |-> MaxRunOps, arglen |-> 1, spaces |-> {"s1"},
     outcomes |-> {Good, Degenerate}, child_outcomes |-> {Good}, queries |-> 0,
     methods |-> {"none"}]
ValueScope ==
    [fits |-> 1, ops |-> 0, arglen |-> 1, spaces |-> {},
     outcomes |-> TrialOutcomes, child_outcomes |-> {Good, Degenerate}, queries |-> 0,
     methods |-> {"none"}]
SpaceScope ==
    [fits |-> 1, ops |-> 0, arglen |-> 1, spaces |-> {},
     outcomes |-> {Good}, child_outcomes |-> {Good}, queries |-> 0,
     methods |-> {"none"}]
MonitorScope ==
    [fits |-> MaxFits, ops |-> 0, arglen |-> 1, spaces |-> {},
     outcomes |-> {Good, Degenerate}, child_outcomes |-> {Good}, queries |-> 0,
     methods |-> {"none"}]
LiveScope ==
    [fits |-> MaxFits, ops |-> MaxRunOps, arglen |-> 1, spaces |-> {},
     outcomes |-> {Good, Degenerate}, child_outcomes |-> {Good}, queries |-> 0,
     methods |-> {"none"}]
CookScope ==
    [fits |-> 1, ops |-> 0, arglen |-> 1, spaces |-> {},
     outcomes |-> {Good}, child_outcomes |-> {Good}, queries |-> 0,
     methods |-> Range(DEFAULT_TRANSFORMATIONS) \cup {UnknownTransform}]
ScratchScope ==
    [fits |-> 1, ops |-> 0, arglen |-> 1, spaces |-> {},
     outcomes |-> {Good, Degenerate}, child_outcomes |-> {Good}, queries |-> 1,
     methods |-> {"none"}]
QueryScope ==
    [fits |-> 1, ops |-> 0, arglen |-> 1, spaces |-> {},
     outcomes |-> {Good, Degenerate}, child_outcomes |-> {Good}, queries |-> MaxQueries,
     methods |-> {"none"}]

\* ------------------------------------------------------------- constructor
\* the models lists given to the constructor
InitModelLists == { <<"A">>, <<"A", "B">>, <<"A", "X">> }
\* the monitor argument: None, one name as a str, or a list of names
MonitorNone == [kind |-> "None", names |-> <<>>]
MonitorArgs ==
    { MonitorNone,
      [kind |-> "str", names |-> <<"mse">>],
      [kind |-> "list", names |-> <<"r2", UnknownMetric>>] }
\* the monitor argument taken as it is, eval_metric not added
Monitor_asgiven(monitor, eval_metric) ==
    IF monitor.kind = "None" THEN <<"r2">> ELSE monitor.names
\* the list of monitored metrics: monitor=None in regression mode is ['r2'],
\* a str is a list of one name, eval_metric is appended when missing
Monitor(monitor, eval_metric) ==
    LET given == IF monitor.kind = "None" THEN <<"r2">> ELSE monitor.names
    IN IF eval_metric \in Range(given) THEN given ELSE Append(given, eval_metric)

Call(op, status, names) == [op |-> op, status |-> status, names |-> names]
\* what a query returns: its value, or the exception it raises
Ok(v) == [raised |-> "no", value |-> v]
Raise(e) == [raised |-> e, value |-> NaN]
\* a query, what it returned, the number of fit calls made before it, and
\* whether it repeats the query before it with no fit call between the two
Answer(op, metric, model, res) ==
    [op |-> op, metric |-> metric, model |-> model, res |-> res, fits |-> nfits,
     repeats |-> /\ answer.op = op /\ answer.metric = metric /\ answer.model = model
                 /\ answer.fits = nfits]

\* the state after construction, the monitor argument being one of monitors
\* and the transformation arguments one of transforms
Constructed(monitors, transforms) ==
    /\ cfg \in [eval_metric : MetricNames, cv_parent_hpo : BOOLEAN, cv_child_hpo : BOOLEAN,
                 monitor : monitors, transforms : transforms]
    /\ models \in InitModelLists
    /\ child_iters = [m \in Range(models) |-> ChildIterations]
    /\ metrics = [m \in Range(Monitor(cfg.monitor, cfg.eval_metric)) |-> <<>>]
    /\ parent_suggestions = <<>>
    /\ estimator_space = [m \in Range(models) \cap KnownModels |-> DefaultSpace]
    /\ optimize_estimator = TRUE
    /\ estimator_ = "None"
    \* attributes that do not exist before the first fit
    /\ val_scores_ = <<>>
    /\ child_val_scores_ = <<>>
    /\ parent_iter_ = 0
    /\ child_iter_ = 0
    /\ optimizer = 0
    /\ saved = 0
    /\ pc = "idle"
    /\ suggestion = "None"
    /\ suggestions = <<>>
    /\ cur = "None"
    /\ nfits = 0
    /\ nops = 0
    /\ last = Call("init", "ok", <<>>)
    /\ answer = [op |-> "none", metric |-> "none", model |-> "none", res |-> Ok(0),
                 fits |-> 0, repeats |-> FALSE]
    /\ nqueries = 0
    /\ param_space = <<>>

\* construction with the default monitor and transformations
Init == Constructed({MonitorNone}, {DefaultTransforms})
\* construction with any monitor argument
InitMonitor == Constructed(MonitorArgs, {DefaultTransforms})
\* construction with any transformation arguments
InitSpace == Constructed({MonitorNone}, TransformArgs)
\* construction with the default transformations of the inputs, with and
\* without the output among the features to transform
InitCook ==
    Constructed({MonitorNone},
                { DefaultTransforms,
                  [DefaultTransforms EXCEPT !.outputs_to_transform = OutputFeatures] })

\* ----------------------------------------------------------------- catalog
Cat(ms, es, ci) == [models |-> ms, estimator_space |-> es, child_iters |-> ci]
CurCat == Cat(models, estimator_space, child_iters)
\* d.pop(k) / del d[k]
Pop(d, k) == [x \in DOMAIN d \ {k} |-> d[x]]
\* list.remove(x): drops the first occurrence
ListRemove(s, x) ==
    LET i == CHOOSE j \in DOMAIN s : s[j] = x /\ \A k \in 1..(j - 1) : s[k] # x
    IN [k \in 1..(Len(s) - 1) |-> IF k < i THEN s[k] ELSE s[k + 1]]

\* sequences of distinct names, the keys of a dict argument
DistinctSeqs(sc) == { s \in UNION { [1..n -> ModelIds] : n \in 1..sc.arglen } :
                        \A i, j \in DOMAIN s : i # j => s[i] # s[j] }
\* a str or list argument
NameLists(sc) == UNION { [1..n -> ModelIds] : n \in 1..sc.arglen }
BudgetChoices == {0, MaxChildBudget}

\* each loop returns the catalog it leaves behind and whether it raised

\* add_model that only looks the name up in estimator_space
RECURSIVE add_model_unchecked(_, _, _)
add_model_unchecked(cat, names, sp) ==
    IF names = <<>> THEN [cat |-> cat, raised |-> FALSE]
    ELSE LET n == Head(names) IN
         IF n \in DOMAIN cat.estimator_space
         THEN [cat |-> cat, raised |-> TRUE]
         ELSE add_model_unchecked(Cat(Append(cat.models, n),
                                      (n :> sp) @@ cat.estimator_space,
                                      (n :> ChildIterations) @@ cat.child_iters),
                                  Tail(names), sp)

\* add_model that gives every model the global child budget again
RECURSIVE add_model_rebudget(_, _, _)
add_model_rebudget(cat, names, sp) ==
    IF names = <<>> THEN [cat |-> cat, raised |-> FALSE]
    ELSE LET n == Head(names) IN
         IF \/ n \in DOMAIN cat.estimator_space
            \/ n \in Range(cat.models)
            \/ n \in DOMAIN cat.child_iters
         THEN [cat |-> cat, raised |-> TRUE]
         ELSE add_model_rebudget(
                  Cat(Append(cat.models, n),
                      (n :> sp) @@ cat.estimator_space,
                      [m \in DOMAIN cat.child_iters \cup {n} |-> ChildIterations]),
                  Tail(names), sp)

RECURSIVE add_model(_, _, _)
add_model(cat, names, sp) ==
    IF names = <<>> THEN [cat |-> cat, raised |-> FALSE]
    ELSE LET n == Head(names) IN
         IF \/ n \in DOMAIN cat.estimator_space
            \/ n \in Range(cat.models)
            \/ n \in DOMAIN cat.child_iters
         THEN [cat |-> cat, raised |-> TRUE]
         ELSE add_model(Cat(Append(cat.models, n),
                            (n :> sp) @@ cat.estimator_space,
                            (n :> ChildIterations) @@ cat.child_iters),
                        Tail(names), sp)

RECURSIVE remove_model(_, _)
remove_model(cat, names) ==
    IF names = <<>> THEN [cat |-> cat, raised |-> FALSE]
    ELSE LET n == Head(names) IN
         IF n \notin Range(cat.models)
         THEN [cat |-> cat, raised |-> TRUE]
         ELSE IF n \notin DOMAIN cat.estimator_space
         THEN [cat |-> Cat(ListRemove(cat.models, n), cat.estimator_space,
                           cat.child_iters),
               raised |-> TRUE]
         ELSE IF n \notin DOMAIN cat.child_iters
         THEN [cat |-> Cat(ListRemove(cat.models, n), Pop(cat.estimator_space, n),
                           cat.child_iters),
               raised |-> TRUE]
         ELSE remove_model(Cat(ListRemove(cat.models, n), Pop(cat.estimator_space, n),
                               Pop(cat.child_iters, n)),
                           Tail(names))

RECURSIVE update_model_space(_, _, _)
update_model_space(cat, names, sp) ==
    IF names = <<>> THEN [cat |-> cat, raised |-> FALSE]
    ELSE LET n == Head(names) IN
         IF n \notin DOMAIN cat.estimator_space
         THEN [cat |-> cat, raised |-> TRUE]
         ELSE update_model_space(
                  Cat(cat.models, [cat.estimator_space EXCEPT ![n] = sp], cat.child_iters),
                  Tail(names), sp)

RECURSIVE change_child_iteration(_, _, _)
change_child_iteration(cat, names, iter) ==
    IF names = <<>> THEN [cat |-> cat, raised |-> FALSE]
    ELSE LET n == Head(names) IN
         IF n \notin DOMAIN cat.child_iters
         THEN [cat |-> cat, raised |-> TRUE]
         ELSE change_child_iteration(
                  Cat(cat.models, cat.estimator_space, [cat.child_iters EXCEPT ![n] = iter]),
                  Tail(names), iter)

\* a catalog call made by the caller while no fit is running
CatalogCall(sc, res, name, names) ==
    /\ pc = "idle"
    /\ nops < sc.ops
    /\ models' = res.cat.models
    /\ estimator_space' = res.cat.estimator_space
    /\ child_iters' = res.cat.child_iters
    /\ nops' = nops + 1
    /\ last' = Call(name, IF res.raised THEN "raised" ELSE "ok", names)
    /\ UNCHANGED <<cfg, suggestions, param_space, answer, nqueries, optimize_estimator,
                   estimator_, metrics, parent_suggestions, val_scores_, child_val_scores_,
                   parent_iter_, child_iter_, optimizer, saved, pc, suggestion, cur, nfits>>

AddModel(sc) ==
    \E names \in DistinctSeqs(sc), sp \in sc.spaces :
        CatalogCall(sc, add_model(CurCat, names, sp), "add_model", names)
RemoveModel(sc) ==
    \E names \in NameLists(sc) :
        CatalogCall(sc, remove_model(CurCat, names), "remove_model", names)
UpdateModelSpace(sc) ==
    \E names \in DistinctSeqs(sc), sp \in sc.spaces :
        CatalogCall(sc, update_model_space(CurCat, names, sp), "update_model_space", names)
ChangeChildIteration(sc) ==
    \E names \in DistinctSeqs(sc), iter \in BudgetChoices :
        CatalogCall(sc, change_child_iteration(CurCat, names, iter),
                    "change_child_iteration", names)

\* ----------------------------------------------------------------- queries
NonNaN(vals) == {i \in DOMAIN vals : ~IsNaN(vals[i])}
\* np.nanmin / np.nanmax of a list: an empty list raises, an all-NaN list gives NaN
nanmin(vals) ==
    IF vals = <<>> THEN Raise("ValueError")
    ELSE IF NonNaN(vals) = {} THEN Ok(NaN)
    ELSE Ok(CHOOSE v \in {vals[i] : i \in NonNaN(vals)} :
                \A i \in NonNaN(vals) : v <= vals[i])
nanmax(vals) ==
    IF vals = <<>> THEN Raise("ValueError")
    ELSE IF NonNaN(vals) = {} THEN Ok(NaN)
    ELSE Ok(CHOOSE v \in {vals[i] : i \in NonNaN(vals)} :
                \A i \in NonNaN(vals) : v >= vals[i])
\* np.nanargmin / np.nanargmax: NaN is replaced by +inf / -inf, then the first
\* position of the extreme value is taken; empty and all-NaN lists raise.
\* The position returned here is 0-based, as numpy's.
ArgFirst(vals, best) == (CHOOSE i \in DOMAIN vals :
                            vals[i] = best /\ \A j \in 1..(i - 1) : vals[j] # best) - 1
nanargmin(vals) ==
    IF vals = <<>> \/ NonNaN(vals) = {} THEN Raise("ValueError")
    ELSE LET a == [i \in DOMAIN vals |-> IF IsNaN(vals[i]) THEN PInf ELSE vals[i]]
         IN Ok(ArgFirst(a, CHOOSE v \in Range(a) : \A w \in Range(a) : v <= w))
nanargmax(vals) ==
    IF vals = <<>> \/ NonNaN(vals) = {} THEN Raise("ValueError")
    ELSE LET a == [i \in DOMAIN vals |-> IF IsNaN(vals[i]) THEN NInf ELSE vals[i]]
         IN Ok(ArgFirst(a, CHOOSE v \in Range(a) : \A w \in Range(a) : v >= w))

\* get_best_metric that takes the largest value whatever the metric's direction
get_best_metric_maxonly(metric_name) ==
    IF metric_name \notin DOMAIN metrics THEN Raise("MetricNotMonitored")
    ELSE nanmax(ODValues(metrics[metric_name]))

get_best_metric(metric_name) ==
    IF metric_name \notin DOMAIN metrics THEN Raise("MetricNotMonitored")
    ELSE IF metric_name \notin DOMAIN MATRIC_TYPES THEN Raise("KeyError")
    ELSE IF MATRIC_TYPES[metric_name] = "min"
    THEN nanmin(ODValues(metrics[metric_name]))
    ELSE nanmax(ODValues(metrics[metric_name]))

get_best_metric_iteration(metric_name) ==
    IF metric_name \notin DOMAIN metrics THEN Raise("MetricNotMonitored")
    ELSE IF metric_name \notin DOMAIN MATRIC_TYPES THEN Raise("KeyError")
    ELSE LET idx == IF MATRIC_TYPES[metric_name] = "min"
                    THEN nanargmin(ODValues(metrics[metric_name]))
                    ELSE nanargmax(ODValues(metrics[metric_name]))
         IN IF idx.raised # "no" THEN idx ELSE Ok(idx.value + 1)

get_best_pipeline_by_metric(metric_name) ==
    LET idx == get_best_metric_iteration(metric_name)
    IN IF idx.raised # "no" THEN idx
       ELSE IF ~ODHas(parent_suggestions, idx.value) THEN Raise("KeyError")
       ELSE Ok(ODGet(parent_suggestions, idx.value))

\* a dict keyed by floats, as the sequence of its items: a key equal to an
\* existing one keeps that key's position and replaces its value; a NaN key
\* equals no key, itself included, and always makes a new item
FloatDictSet(d, k, v) == IF IsNaN(k) THEN Append(d, <<k, v>>) ELSE ODSet(d, k, v)

\* (key, record) < (key, record) for two items of one dict: the keys differ, so
\* the tuples compare as their keys do
ItemLt(a, b) == FLt(a[1], b[1])
Reverse(s) == [i \in DOMAIN s |-> s[Len(s) + 1 - i]]
\* sorted() of a short list: the leading run (reversed when strictly
\* descending), then binary insertion of each later item
RECURSIVE RunEnd(_, _, _)
RunEnd(a, i, desc) ==
    IF i = Len(a) THEN i
    ELSE IF ItemLt(a[i + 1], a[i]) = desc THEN RunEnd(a, i + 1, desc)
    ELSE i
RECURSIVE BinSearch(_, _, _, _)
BinSearch(a, pivot, l, r) ==
    IF l >= r THEN l
    ELSE LET p == l + ((r - l) \div 2) IN
         IF ItemLt(pivot, a[p + 1]) THEN BinSearch(a, pivot, l, p)
         ELSE BinSearch(a, pivot, p + 1, r)
\* a[start] moved to the 0-based position l <= start - 1
InsertAt(a, start, l) ==
    [i \in DOMAIN a |-> IF i <= l THEN a[i]
                        ELSE IF i = l + 1 THEN a[start]
                        ELSE IF i <= start THEN a[i - 1]
                        ELSE a[i]]
RECURSIVE BinarySort(_, _)
BinarySort(a, start) ==
    IF start > Len(a) THEN a
    ELSE BinarySort(InsertAt(a, start, BinSearch(a, a[start], 0, start - 1)), start + 1)
sorted(items) ==
    IF Len(items) < 2 THEN items
    ELSE LET desc == ItemLt(items[2], items[1])
             n == RunEnd(items, 2, desc)
             run == SubSeq(items, 1, n)
         IN BinarySort((IF desc THEN Reverse(run) ELSE run) \o SubSeq(items, n + 1, Len(items)),
                       n + 1)

\* the loop of get_best_pipeline_by_model over parent_suggestions.items(),
\* from item i on: the container it builds, or the error that ends it
RECURSIVE model_container(_, _, _, _)
model_container(model_name, metric_name, i, container) ==
    IF i > Len(parent_suggestions) THEN Ok(container)
    ELSE LET iter_num == parent_suggestions[i][1]
             iter_suggestions == parent_suggestions[i][2]
         IN IF iter_suggestions.model # model_name
            THEN model_container(model_name, metric_name, i + 1, container)
            ELSE IF ~ODHas(metrics[metric_name], iter_num) THEN Raise("KeyError")
            ELSE model_container(model_name, metric_name, i + 1,
                     FloatDictSet(container,
                                  Round4(ODGet(metrics[metric_name], iter_num)),
                                  iter_suggestions))

get_best_pipeline_by_model(model_name, metric_name) ==
    IF metric_name \notin DOMAIN metrics THEN Raise("MetricNotMonitored")
    ELSE LET c == model_container(model_name, metric_name, 1, <<>>) IN
         IF c.raised # "no" THEN c
         ELSE IF Len(c.value) = 0 THEN Raise("ModelNotUsedError")
         ELSE LET sorted_container == sorted(c.value)
              IN Ok(sorted_container[Len(sorted_container)])

\* ------------------------------------------------------------ query calls
\* a query made by the caller while no fit is running: none of the four
\* methods assigns to an attribute of the object
\* a query that takes the record it returns out of parent_suggestions
QueryCall_consuming(sc, op, metric, model, res) ==
    /\ pc = "idle"
    /\ nqueries < sc.queries
    /\ nqueries' = nqueries + 1
    /\ answer' = Answer(op, metric, model, res)
    /\ parent_suggestions' =
            IF op = "get_best_pipeline_by_metric" /\ res.raised = "no"
            THEN SelectSeq(parent_suggestions, LAMBDA item : item[2] # res.value)
            ELSE parent_suggestions
    /\ UNCHANGED <<cfg, suggestions, param_space, models, estimator_space, child_iters,
                   optimize_estimator, estimator_, metrics, val_scores_, child_val_scores_,
                   parent_iter_, child_iter_, optimizer, saved, pc, suggestion, cur, nfits,
                   nops, last>>

QueryCall(sc, op, metric, model, res) ==
    /\ pc = "idle"
    /\ nqueries < sc.queries
    /\ nqueries' = nqueries + 1
    /\ answer' = Answer(op, metric, model, res)
    /\ UNCHANGED <<cfg, suggestions, param_space, models, estimator_space, child_iters,
                   optimize_estimator, estimator_, metrics, parent_suggestions,
                   val_scores_, child_val_scores_, parent_iter_, child_iter_, optimizer,
                   saved, pc, suggestion, cur, nfits, nops, last>>

GetBestMetric(sc) ==
    \E m \in MetricNames :
        QueryCall(sc, "get_best_metric", m, "none", get_best_metric(m))
GetBestMetricIteration(sc) ==
    \E m \in MetricNames :
        QueryCall(sc, "get_best_metric_iteration", m, "none", get_best_metric_iteration(m))
GetBestPipelineByMetric(sc) ==
    \E m \in MetricNames :
        QueryCall(sc, "get_best_pipeline_by_metric", m, "none",
                  get_best_pipeline_by_metric(m))
GetBestPipelineByModel(sc) ==
    \E m \in MetricNames, n \in ModelIds :
        QueryCall(sc, "get_best_pipeline_by_model", m, n, get_best_pipeline_by_model(n, m))

\* -------------------------------------------------- the best model from scratch
\* a Python value with its type
Py(type, value) == [type |-> type, value |-> value]
\* _build_and_eval_from_scratch(model=pipeline['model'], ...) with met_val in
\* the prefix: what is built, or the error of subscripting or rounding
build_from_scratch(pipeline, met_val) ==
    IF met_val.type # "float" THEN Raise("TypeError")
    ELSE IF pipeline.type # "dict" THEN Raise("TypeError")
    ELSE Ok([model |-> pipeline.value.model,
             paras |-> pipeline.value.paras,
             x_transformation |-> pipeline.value.x_transformation,
             y_transformation |-> pipeline.value.y_transformation,
             met_val |-> Round3(met_val.value)])
\* model_name "None": not given; metric_name "None": the evaluation metric
bfe_best_model_from_scratch(metric_name, model_name) ==
    LET metric == IF metric_name = "None" THEN cfg.eval_metric ELSE metric_name IN
    IF model_name # "None"
    THEN LET best == get_best_pipeline_by_model(model_name, metric) IN
         IF best.raised # "no" THEN best
         \* pipeline, met_val = (the value of the metric, the record)
         ELSE build_from_scratch(Py("float", best.value[1]), Py("dict", best.value[2]))
    ELSE LET met_val == get_best_metric(metric)
             pipeline == get_best_pipeline_by_metric(metric)
         IN IF met_val.raised # "no" THEN met_val
            ELSE IF pipeline.raised # "no" THEN pipeline
            ELSE build_from_scratch(Py("dict", pipeline.value), Py("float", met_val.value))

BfeBestModelFromScratch(sc) ==
    \E m \in MetricNames \cup {"None"}, n \in ModelIds \cup {"None"} :
        QueryCall(sc, "bfe_best_model_from_scratch", m, n, bfe_best_model_from_scratch(m, n))

\* ------------------------------------------------------ metric normalization
\* eval_model_manually that never subtracts the value from 1.0
eval_model_manually_asis(val, metric) == IF ~IsFinite(val) THEN One ELSE val

eval_model_manually(val, metric) ==
    LET val_score == IF MATRIC_TYPES[metric] # "min" THEN OneMinus(val) ELSE val
    IN IF ~IsFinite(val_score) THEN One ELSE val_score

\* _fit_and_eval: outcome is what the trained model predicts on validation data,
\* cv_score what its cross_val_score returns
fit_and_eval(cross_validate, outcome, cv_score) ==
    IF cross_validate THEN cv_score
    ELSE eval_model_manually(outcome[cfg.eval_metric], cfg.eval_metric)
CvChoices(cross_validate) == IF cross_validate THEN CvScores ELSE {NaN}

\* --------------------------------------------------------------------- fit
\* an exception that is caught and logged: the search goes on
FitRaises_swallowed == pc' = "parent" /\ last' = Call("fit", "raised", <<>>)
\* an exception leaves fit (or a catalog call inside no fit): the caller is back
FitRaises == pc' = "idle" /\ last' = Call("fit", "raised", <<>>)

\* the child_iterations given to the constructor
max_child_iters_default == ChildIterations
max_child_iters == Max({child_iters[m] : m \in DOMAIN child_iters})

\* Categorical(categories, name=name)
Dim(name, categories) == [name |-> name, categories |-> categories]
\* ai4water's make_space: one Categorical per feature, over append[feature]
\* when the feature is a key of append and over categories otherwise
make_space(features, categories, append) ==
    [i \in DOMAIN features |->
        Dim(features[i], IF features[i] \in DOMAIN append
                         THEN Range(append[features[i]]) ELSE categories)]
\* self.output_transformations = output_transformations or DEFAULT_Y_TRANFORMATIONS
output_transformations ==
    IF cfg.transforms.output_transformations.kind = "None"
    THEN TList(DEFAULT_Y_TRANFORMATIONS)
    ELSE cfg.transforms.output_transformations
\* space() up to make_space: the dimensions of the features to transform, or
\* the error raised
space_transformations ==
    LET it == cfg.transforms.input_transformations
        ot == output_transformations
        outs == cfg.transforms.outputs_to_transform
        x_categories == IF it.kind = "list" THEN it.names ELSE DEFAULT_TRANSFORMATIONS
        x_append == IF it.kind = "dict" THEN (it.feature :> it.names)
                    ELSE [f \in {} |-> <<>>]
    IN IF outs = <<>>
       THEN Ok(make_space(InputsToTransform, Range(x_categories), x_append))
       ELSE IF ot.kind = "list"
       THEN IF \E i \in DOMAIN ot.names : ot.names[i] \notin Range(DEFAULT_Y_TRANFORMATIONS)
            THEN Raise("AssertionError")
            ELSE Ok(make_space(InputsToTransform \o outs,
                               Range(x_categories) \cup Range(ot.names),
                               [f \in Range(OutputFeatures) |-> ot.names] @@ x_append))
       \* a dict: the assert on the names iterates over the dict itself, its keys
       ELSE IF ot.feature \notin Range(OutputFeatures) THEN Raise("AssertionError")
       ELSE IF ot.feature \notin Range(DEFAULT_Y_TRANFORMATIONS) THEN Raise("AssertionError")
       \* y_categories is a list of lists, which set() cannot hash
       ELSE Raise("TypeError")

\* the estimator dimension that is always there
estimator_dimension_always(ms) == <<Dim("estimator", Range(ms))>>
\* the estimator dimension space() appends for the models list ms
estimator_dimension(ms) ==
    IF Len(ms) > 1 THEN <<Dim("estimator", Range(ms))>> ELSE <<>>

\* fit up to the start of the parent search: reset(), space(), HyperOpt(...)
FitStart(sc) ==
    /\ pc = "idle"
    /\ nfits < sc.fits
    /\ nfits' = nfits + 1
    /\ parent_iter_' = 0
    /\ child_iter_' = 0
    /\ val_scores_' = <<>>
    /\ IF DOMAIN child_iters = {}
       THEN \* max() of an empty sequence
            /\ FitRaises
            /\ UNCHANGED <<child_val_scores_, optimize_estimator, estimator_, param_space>>
       ELSE /\ child_val_scores_' =
                   [p \in 1..ParentIterations |-> [c \in 1..max_child_iters |-> NaN]]
            /\ IF space_transformations.raised # "no"
               THEN /\ FitRaises
                    /\ UNCHANGED <<optimize_estimator, estimator_, param_space>>
               ELSE IF Len(models) > 1
               THEN /\ param_space' = space_transformations.value \o estimator_dimension(models)
                    /\ pc' = "parent"
                    /\ last' = Call("fit", "running", <<>>)
                    /\ UNCHANGED <<optimize_estimator, estimator_>>
               ELSE /\ optimize_estimator' = FALSE
                    /\ IF models = <<>>
                       THEN FitRaises /\ UNCHANGED <<estimator_, param_space>>
                       ELSE /\ estimator_' = models[1]
                            /\ param_space' =
                                   space_transformations.value \o estimator_dimension(models)
                            /\ pc' = "parent"
                            /\ last' = Call("fit", "running", <<>>)
    /\ UNCHANGED <<cfg, suggestions, answer, nqueries, models, estimator_space, child_iters,
                   metrics, parent_suggestions, optimizer, saved, suggestion, cur, nops>>

\* the value the Trial Optimizer suggests for the "estimator" dimension
Suggestions ==
    LET dims == {i \in DOMAIN param_space : param_space[i].name = "estimator"}
    IN IF dims = {} THEN {"None"} ELSE UNION {param_space[i].categories : i \in dims}

\* the methods the Trial Optimizer suggests for the dimensions of the features:
\* one category of each dimension
MethodChoices(sc, dim) ==
    IF dim.categories \cap sc.methods = {} THEN dim.categories
    ELSE dim.categories \cap sc.methods
TransformationSuggestions(sc) ==
    LET names == UNION {param_space[i].categories : i \in DOMAIN param_space}
    IN { f \in [DOMAIN param_space -> names] :
            \A i \in DOMAIN param_space :
                \/ param_space[i].name = "estimator" /\ f[i] \in Suggestions
                \/ param_space[i].name # "estimator"
                   /\ f[i] \in MethodChoices(sc, param_space[i]) }

\* parent_objective up to the start of the child search
ParentTrialStart(sc) ==
    /\ pc = "parent"
    /\ parent_iter_ < ParentIterations
    /\ \E sugg \in Suggestions, f \in TransformationSuggestions(sc) :
        LET estimator == IF optimize_estimator THEN sugg ELSE estimator_ IN
        /\ \A i \in DOMAIN param_space : param_space[i].name = "estimator" => f[i] = sugg
        /\ parent_iter_' = parent_iter_ + 1
        /\ suggestion' = sugg
        /\ suggestions' = [i \in DOMAIN param_space |-> <<param_space[i].name, f[i]>>]
        /\ IF estimator \notin DOMAIN estimator_space
           THEN FitRaises /\ UNCHANGED <<child_iter_, cur>>
           ELSE /\ child_iter_' = 0
                /\ IF estimator \notin DOMAIN child_iters
                   THEN FitRaises /\ UNCHANGED cur
                   ELSE pc' = "child" /\ cur' = estimator /\ UNCHANGED last
    /\ UNCHANGED <<cfg, param_space, answer, nqueries, models, estimator_space,
                   child_iters, optimize_estimator,
                   estimator_, metrics, parent_suggestions, val_scores_,
                   child_val_scores_, optimizer, saved, nfits, nops>>

\* the cell [child_iter - 1, parent_iter - 1]
index_transposed(parent_iter, child_iter) == <<child_iter - 1, parent_iter - 1>>
\* the cell [self.parent_iter_-1, self.child_iter_-1] a child trial writes
index(parent_iter, child_iter) == <<parent_iter - 1, child_iter - 1>>

\* child_objective: one child trial
ChildTrial(sc) ==
    /\ pc = "child"
    /\ child_iter_ < child_iters[cur]
    /\ child_iter_' = child_iter_ + 1
    /\ \E outcome \in sc.child_outcomes, cv_score \in CvChoices(cfg.cv_child_hpo) :
        LET val_score == fit_and_eval(cfg.cv_child_hpo, outcome, cv_score)
            \* the array index counts from 0, the rows and cells here from 1
            row == index(parent_iter_, child_iter_')[1] + 1
            col == index(parent_iter_, child_iter_')[2] + 1
        IN
        IF row \in DOMAIN child_val_scores_ /\ col \in DOMAIN child_val_scores_[row]
        THEN /\ child_val_scores_' = [child_val_scores_ EXCEPT ![row][col] = val_score]
             /\ UNCHANGED <<pc, last>>
        ELSE FitRaises /\ UNCHANGED child_val_scores_
    /\ UNCHANGED <<cfg, suggestions, param_space, answer, nqueries, models, estimator_space,
                   child_iters, optimize_estimator,
                   estimator_, metrics, parent_suggestions, val_scores_, parent_iter_,
                   optimizer, saved, suggestion, cur, nfits, nops>>

\* building, training or evaluating the child model raises
ChildTrialRaises ==
    /\ pc = "child"
    /\ child_iter_ < child_iters[cur]
    /\ child_iter_' = child_iter_ + 1
    /\ FitRaises
    /\ UNCHANGED <<cfg, suggestions, param_space, answer, nqueries, models, estimator_space,
                   child_iters, optimize_estimator,
                   estimator_, metrics, parent_suggestions, val_scores_,
                   child_val_scores_, parent_iter_, optimizer, saved, suggestion, cur,
                   nfits, nops>>

\* the letters of the names of the methods
Chars(method) ==
    CASE method = "minmax" -> <<"m", "i", "n", "m", "a", "x">>
      [] method = "box-cox" -> <<"b", "o", "x", "-", "c", "o", "x">>
      [] method = "log" -> <<"l", "o", "g">>
      [] method = "log10" -> <<"l", "o", "g", "1", "0">>
      [] method = "sqrt" -> <<"s", "q", "r", "t">>
      [] method = "none" -> <<"n", "o", "n", "e">>
      [] method = UnknownTransform ->
            <<"n", "o", "t", "a", "t", "r", "a", "n", "s", "f", "o", "r", "m">>
\* str.startswith
startswith(str, prefix) ==
    /\ Len(Chars(str)) >= Len(Chars(prefix))
    /\ SubSeq(Chars(str), 1, Len(Chars(prefix))) = Chars(prefix)
\* the columns of self.data_
data_ == Range(InputFeatures) \cup Range(OutputFeatures)
\* the dict t of one feature with no key but method and features
Transformation_bare(feature, method) == [method |-> method, features |-> <<feature>>]
\* the dict t of one feature: its keys are those the method sets
Transformation(feature, method) ==
    LET t == [method |-> method, features |-> <<feature>>]
    IN IF startswith(method, "log")
       THEN t @@ [treat_negatives |-> TRUE, replace_zeros |-> TRUE]
       ELSE IF method = "box-cox"
       THEN t @@ [treat_negatives |-> TRUE, replace_zeros |-> TRUE]
       ELSE IF method = "sqrt"
       THEN t @@ [treat_negatives |-> TRUE]
       ELSE t
\* the loop over suggestions.items(): x_transformations, y_transformations
RECURSIVE cook(_, _, _, _)
cook(items, i, x_transformations, y_transformations) ==
    IF i > Len(items) THEN <<x_transformations, y_transformations>>
    ELSE LET feature == items[i][1]
             method == items[i][2]
         IN IF feature \notin data_ \/ method = "none"
            THEN cook(items, i + 1, x_transformations, y_transformations)
            ELSE IF feature \in Range(InputFeatures)
            THEN cook(items, i + 1,
                      Append(x_transformations, Transformation(feature, method)),
                      y_transformations)
            ELSE cook(items, i + 1, x_transformations,
                      Append(y_transformations, Transformation(feature, method)))
_cook_transformations(items) == cook(items, 1, <<>>, <<>>)

\* a ledger that numbers its records on through the fit calls
iteration_key_appended == Len(parent_suggestions) + 1
\* the key of self.parent_suggestions[self.parent_iter_] = {...}
iteration_key == parent_iter_

\* optimizer.best_paras(): nothing tuned when the child search ran no trial
best_paras == IF child_iter_ = 0 THEN "default" ELSE "tuned"
\* the ParentTrialRecord; model.path names the run and the iteration
Record(estimator, paras) ==
    [x_transformation |-> _cook_transformations(suggestions)[1],
     y_transformation |-> _cook_transformations(suggestions)[2],
     model |-> estimator, paras |-> paras, path |-> <<nfits, parent_iter_>>]

\* parent_objective after the child search: build, record, train, evaluate
ParentTrialFinish(sc) ==
    /\ pc = "child"
    /\ child_iter_ = child_iters[cur]
    /\ parent_suggestions' = ODSet(parent_suggestions, iteration_key, Record(cur, best_paras))
    /\ \E outcome \in sc.outcomes, cv_score \in CvChoices(cfg.cv_parent_hpo) :
        \* the loop over self.metrics stops at the first name Metrics cannot compute
        LET monitor == Monitor(cfg.monitor, cfg.eval_metric)
            unknown == {i \in DOMAIN monitor : monitor[i] \notin MetricNames}
            computed == IF unknown = {} THEN Range(monitor)
                        ELSE {monitor[i] : i \in 1..(Min(unknown) - 1)}
        IN /\ metrics' = [k \in DOMAIN metrics |->
                            IF k \in computed
                            THEN ODSet(metrics[k], parent_iter_, outcome[k])
                            ELSE metrics[k]]
           /\ IF unknown = {}
              THEN /\ val_scores_' = ODSet(val_scores_, parent_iter_,
                                           fit_and_eval(cfg.cv_parent_hpo, outcome, cv_score))
                   /\ pc' = "parent"
                   /\ UNCHANGED last
              ELSE FitRaises /\ UNCHANGED val_scores_
    /\ UNCHANGED <<cfg, suggestions, param_space, answer, nqueries, models, estimator_space,
                   child_iters, optimize_estimator, estimator_, child_val_scores_,
                   parent_iter_, child_iter_, optimizer, saved, suggestion, cur, nfits, nops>>

\* _build_model raises: nothing is recorded
ParentBuildRaises ==
    /\ pc = "child"
    /\ child_iter_ = child_iters[cur]
    /\ FitRaises
    /\ UNCHANGED <<cfg, suggestions, param_space, answer, nqueries, models, estimator_space,
                   child_iters, optimize_estimator,
                   estimator_, metrics, parent_suggestions, val_scores_,
                   child_val_scores_, parent_iter_, child_iter_, optimizer, saved,
                   suggestion, cur, nfits, nops>>

\* _fit_and_eval or predict raises: the record is already in parent_suggestions
ParentEvalRaises ==
    /\ pc = "child"
    /\ child_iter_ = child_iters[cur]
    /\ parent_suggestions' = ODSet(parent_suggestions, iteration_key, Record(cur, best_paras))
    /\ FitRaises
    /\ UNCHANGED <<cfg, suggestions, param_space, answer, nqueries, models, estimator_space,
                   child_iters, optimize_estimator,
                   estimator_, metrics, val_scores_, child_val_scores_, parent_iter_,
                   child_iter_, optimizer, saved, suggestion, cur, nfits, nops>>

\* save_results: np.column_stack needs columns of one length
save_results_ok ==
    \A k \in DOMAIN metrics : Len(metrics[k]) = Len(val_scores_)
\* report: metric_report of every monitored metric
metric_report_ok(metric) ==
    /\ get_best_metric(metric).raised = "no"
    /\ get_best_pipeline_by_metric(metric).raised = "no"
    /\ get_best_metric_iteration(metric).raised = "no"
report_ok == \A k \in DOMAIN metrics : metric_report_ok(k)

\* fit after parent_opt.fit() returned: optimizer, save_results, report
FitFinish ==
    /\ optimizer' = nfits
    /\ IF ~save_results_ok
       THEN FitRaises /\ UNCHANGED saved
       ELSE /\ saved' = nfits
            /\ IF ~report_ok THEN FitRaises ELSE pc' = "idle" /\ last' = Call("fit", "ok", <<>>)
    /\ UNCHANGED <<cfg, suggestions, param_space, answer, nqueries, models, estimator_space,
                   child_iters, optimize_estimator,
                   estimator_, metrics, parent_suggestions, val_scores_,
                   child_val_scores_, parent_iter_, child_iter_, suggestion, cur,
                   nfits, nops>>

\* a Trial Optimizer that waits for one trial more than its budget
FitReturn_late == pc = "parent" /\ parent_iter_ = ParentIterations + 1 /\ FitFinish
\* the Trial Optimizer ran all its trials
FitReturn == pc = "parent" /\ parent_iter_ = ParentIterations /\ FitFinish
\* the Trial Optimizer stopped early
FitStopsEarly == pc = "parent" /\ parent_iter_ < ParentIterations /\ FitFinish

Catalog(sc) ==
    \/ AddModel(sc) \/ RemoveModel(sc) \/ UpdateModelSpace(sc) \/ ChangeChildIteration(sc)
Run(sc) ==
    \/ FitStart(sc) \/ ParentTrialStart(sc) \/ ChildTrial(sc) \/ ChildTrialRaises
    \/ ParentTrialFinish(sc) \/ ParentBuildRaises \/ ParentEvalRaises
    \/ FitReturn \/ FitStopsEarly

Queries(sc) ==
    \/ GetBestMetric(sc) \/ GetBestMetricIteration(sc)
    \/ GetBestPipelineByMetric(sc) \/ GetBestPipelineByModel(sc)

\* fit calls with catalog calls before and between them
Next == Catalog(RunScope) \/ Run(RunScope)
Spec == Init /\ [][Next]_vars

\* catalog calls only, each naming one or several models
NextCatalog == Catalog(CatalogScope)
SpecCatalog == Init /\ [][NextCatalog]_vars

\* one fit, with every trial outcome
NextValues == Run(ValueScope)
SpecValues == Init /\ [][NextValues]_vars

\* one fit of an object constructed with any monitor argument
NextMonitor == Run(MonitorScope)
SpecMonitor == InitMonitor /\ [][NextMonitor]_vars

\* one fit of an object constructed with any transformation arguments
NextSpace == Run(SpaceScope)
SpecSpace == InitSpace /\ [][NextSpace]_vars

\* one fit whose Trial Optimizer suggests every transformation
NextCook == Run(CookScope)
SpecCook == InitCook /\ [][NextCook]_vars

\* one fit and one call of bfe_best_model_from_scratch
NextScratch == Run(ScratchScope) \/ BfeBestModelFromScratch(ScratchScope)
SpecScratch == Init /\ [][NextScratch]_vars

\* fit calls with queries before, between and after them
NextQueries == Run(QueryScope) \/ Queries(QueryScope)
SpecQueries == Init /\ [][NextQueries]_vars

\* fit calls whose Trial Optimizer runs every trial and whose models train and
\* evaluate, with changes of the child budgets before and between them. fit is
\* one synchronous call: once it has started, its next step is taken.
FitProgress(sc) ==
    ParentTrialStart(sc) \/ ChildTrial(sc) \/ ParentTrialFinish(sc) \/ FitReturn
NextLive == FitStart(LiveScope) \/ FitProgress(LiveScope) \/ ChangeChildIteration(LiveScope)
SpecLive == Init /\ [][NextLive]_vars /\ WF_vars(FitProgress(LiveScope))

\* ================================================================== claims
\* where a caller can issue a query: no fit running, or between two parent trials
QueryPoint == pc \in {"idle", "parent"}
Keys1(k) == 1..k

\* C1: the names in models, the keys of estimator_space and the keys of
\* _child_iters are the same set in every reachable state, the state right
\* after construction included.
C1_KeySetsIdentical ==
    /\ Range(models) = DOMAIN estimator_space
    /\ DOMAIN estimator_space = DOMAIN child_iters

\* C2: when a second or later fit has completed after k parent trials,
\* parent_suggestions, every metric history and val_scores_ have exactly the
\* keys 1..k, and every record was produced by that fit.
C2_FreshLedger ==
    (pc = "idle" /\ last = Call("fit", "ok", <<>>) /\ nfits >= 2) =>
        /\ ODKeys(parent_suggestions) = Keys1(parent_iter_)
        /\ \A m \in DOMAIN metrics : ODKeys(metrics[m]) = Keys1(parent_iter_)
        /\ ODKeys(val_scores_) = Keys1(parent_iter_)
        /\ \A i \in DOMAIN parent_suggestions : parent_suggestions[i][2].path[1] = nfits

\* C3: in every parent trial the estimator trained and recorded is
\* suggestions['estimator'] when more than one model is registered, the single
\* registered model when exactly one is, and always a member of models.
InParentTrial == pc = "child" \/ (pc = "parent" /\ parent_iter_ >= 1)
C3_EstimatorResolved ==
    InParentTrial =>
        /\ Len(models) > 1 => cur = suggestion
        /\ Len(models) = 1 => cur = models[1]
        /\ cur \in Range(models)
        /\ pc = "parent" => ODGet(parent_suggestions, parent_iter_).model = cur

\* C4: every score stored in val_scores_ and child_val_scores_ is finite, it is
\* exactly 1.0 when the underlying metric is NaN or infinite, and the trial's
\* record and metric entries are in the ledger.
C4_ScoresFinite ==
    /\ \A i \in DOMAIN val_scores_ :
        LET k == val_scores_[i][1] IN
        /\ IsFinite(val_scores_[i][2])
        /\ ODHas(parent_suggestions, k)
        /\ \A m \in DOMAIN metrics : ODHas(metrics[m], k)
        /\ ~IsFinite(ODGet(metrics[cfg.eval_metric], k)) => val_scores_[i][2] = One
    /\ pc = "child" =>
        \A c \in 1..child_iter_ : IsFinite(child_val_scores_[parent_iter_][c])

\* C5: wherever a query can be issued, every iteration that is a key of
\* parent_suggestions is a key of every metric history and of val_scores_.
C5_RecordsHaveMetrics ==
    QueryPoint =>
        /\ \A m \in DOMAIN metrics : ODKeys(parent_suggestions) \subseteq ODKeys(metrics[m])
        /\ ODKeys(parent_suggestions) \subseteq ODKeys(val_scores_)

\* a step that is one catalog call op; the models it named are last'.names
IsCall(op) == nops' = nops + 1 /\ last'.op = op
Registered(n) ==
    n \in Range(models) \/ n \in DOMAIN estimator_space \/ n \in DOMAIN child_iters
NamesRegistered(names) == {i \in DOMAIN names : Registered(names[i])}

\* C6 (as claimed): add_model naming an already registered model raises and
\* leaves models, estimator_space and _child_iters exactly as they were.
C6_FailedAddLeavesCatalog ==
    [][(IsCall("add_model") /\ NamesRegistered(last'.names) # {}) =>
            (last'.status = "raised" /\ UNCHANGED catalog)]_vars

\* C6 (amended): add_model naming an already registered model raises; the
\* models named before the first registered one have been appended to all three
\* structures with the global child budget, every earlier entry is untouched,
\* and a mapping of one model leaves the catalog exactly as it was.
C6_FailedAddKeepsPrefix ==
    [][(IsCall("add_model") /\ NamesRegistered(last'.names) # {}) =>
            LET names == last'.names
                first == CHOOSE i \in NamesRegistered(names) :
                            \A j \in NamesRegistered(names) : i <= j
                added == SubSeq(names, 1, first - 1)
            IN /\ last'.status = "raised"
               /\ models' = models \o added
               /\ DOMAIN estimator_space' = DOMAIN estimator_space \cup Range(added)
               /\ DOMAIN child_iters' = DOMAIN child_iters \cup Range(added)
               /\ \A m \in DOMAIN estimator_space : estimator_space'[m] = estimator_space[m]
               /\ \A m \in DOMAIN child_iters : child_iters'[m] = child_iters[m]
               /\ \A m \in Range(added) : child_iters'[m] = ChildIterations
               /\ Len(names) = 1 => UNCHANGED catalog]_vars
\* a failed add_model of two models whose first one stayed registered
C6_Witness ==
    /\ last.op = "add_model" /\ last.status = "raised"
    /\ Len(last.names) = 2
    /\ last.names[1] \in Range(models) \cap DOMAIN estimator_space \cap DOMAIN child_iters
    /\ models[Len(models)] = last.names[1]

\* C7: remove_model raises when a named model is not registered, and after any
\* call either it succeeded and every named model is gone from all three
\* structures, or none of the three has changed.
C7_RemoveAllOrNothing ==
    [][IsCall("remove_model") =>
            LET names == last'.names IN
            /\ (\E i \in DOMAIN names : names[i] \notin Range(models))
                    => last'.status = "raised"
            /\ \/ /\ last'.status = "ok"
                  /\ \A i \in DOMAIN names :
                        /\ names[i] \notin Range(models')
                        /\ names[i] \notin DOMAIN estimator_space'
                        /\ names[i] \notin DOMAIN child_iters'
               \/ UNCHANGED catalog]_vars

\* C8: get_best_metric and get_best_metric_iteration raise MetricNotMonitored
\* for a metric that is not monitored and for a monitored metric whose history
\* is still empty.
NoHistory(m) == m \notin DOMAIN metrics \/ metrics[m] = <<>>
C8_NoHistoryIsNotMonitored ==
    QueryPoint =>
        \A m \in MetricNames :
            NoHistory(m) =>
                /\ get_best_metric(m).raised = "MetricNotMonitored"
                /\ get_best_metric_iteration(m).raised = "MetricNotMonitored"

\* Python's min(values) and max(values): the first value is kept until a later
\* one compares strictly smaller (larger) than it
RECURSIVE PyFold(_, _, _, _)
PyFold(vals, i, acc, dir) ==
    IF i > Len(vals) THEN acc
    ELSE PyFold(vals, i + 1,
                IF (dir = "min" /\ FLt(vals[i], acc)) \/ (dir = "max" /\ FLt(acc, vals[i]))
                THEN vals[i] ELSE acc,
                dir)
PyBest(vals, dir) == PyFold(vals, 2, vals[1], dir)
History(m) == ODValues(metrics[m])
Monitored == {m \in DOMAIN metrics : metrics[m] # <<>>}

\* C9 (as claimed): get_best_metric(m) is min(history values) for a "min"
\* metric and max(history values) for a "max" metric.
C9_BestIsMinOfAll ==
    QueryPoint =>
        \A m \in Monitored :
            /\ get_best_metric(m).raised = "no"
            /\ get_best_metric(m).value = PyBest(History(m), MATRIC_TYPES[m])

\* C9 (amended): get_best_metric(m) is the minimum ("min") or maximum ("max")
\* of the recorded values that are not NaN, and NaN when every one is NaN.
C9_BestIsMinOfNonNaN ==
    QueryPoint =>
        \A m \in Monitored :
            LET best == get_best_metric(m)
                comparable == Range(History(m)) \ {NaN}
            IN /\ best.raised = "no"
               /\ IF comparable = {} THEN best.value = NaN
                  ELSE /\ best.value \in comparable
                       /\ MATRIC_TYPES[m] = "min" => \A v \in comparable : best.value <= v
                       /\ MATRIC_TYPES[m] = "max" => \A v \in comparable : best.value >= v
\* a "min" history of NaN followed by a finite value, which is the best value
C9_Witness ==
    /\ QueryPoint
    /\ "mse" \in Monitored
    /\ Len(metrics["mse"]) = 2
    /\ History("mse")[1] = NaN
    /\ IsFinite(History("mse")[2])
    /\ get_best_metric("mse").value = History("mse")[2]

\* C10: for a history with a comparable value, get_best_metric_iteration(m) is
\* a key of parent_suggestions whose metric value equals get_best_metric(m),
\* and it is the earliest such iteration.
C10_BestIterationAchievesBest ==
    QueryPoint =>
        \A m \in Monitored :
            Range(History(m)) # {NaN} =>
                LET it == get_best_metric_iteration(m)
                    best == get_best_metric(m)
                IN /\ it.raised = "no"
                   /\ ODHas(parent_suggestions, it.value)
                   /\ ODHas(metrics[m], it.value)
                   /\ FEq(ODGet(metrics[m], it.value), best.value)
                   /\ \A j \in ODKeys(metrics[m]) :
                        j < it.value => ~FEq(ODGet(metrics[m], j), best.value)

\* the iterations whose record trains model n
Trials(n) == {k \in ODKeys(parent_suggestions) : ODGet(parent_suggestions, k).model = n}
\* v is strictly better than w for a metric of direction dir
Better(v, w, dir) == IF dir = "min" THEN FLt(v, w) ELSE FLt(w, v)

\* C11: for a monitored metric get_best_pipeline_by_model raises
\* ModelNotUsedError exactly when no record trains the model; when one model
\* has been registered since construction and a parent trial has completed,
\* the query for that model does not raise at all.
C11_ModelNotUsedIffNoRecord ==
    QueryPoint =>
        \A m \in DOMAIN metrics :
            /\ \A n \in ModelIds :
                    (get_best_pipeline_by_model(n, m).raised = "ModelNotUsedError")
                        <=> (Trials(n) = {})
            /\ (Len(models) = 1 /\ nops = 0 /\ val_scores_ # <<>>)
                    => get_best_pipeline_by_model(models[1], m).raised = "no"

\* C12: the value get_best_pipeline_by_model returns for a model is the best
\* of that model's trials in the metric's direction: no trial of the model has
\* a rounded value strictly better, and for the model of
\* get_best_pipeline_by_metric it is get_best_metric rounded to 4 decimals.
C12_ByModelIsBestOfModel ==
    QueryPoint =>
        \A m \in DOMAIN metrics : \A n \in ModelIds :
            LET res == get_best_pipeline_by_model(n, m) IN
            res.raised = "no" =>
                /\ \A k \in Trials(n) :
                        ~Better(Round4(ODGet(metrics[m], k)), res.value[1], MATRIC_TYPES[m])
                /\ LET best == get_best_pipeline_by_metric(m) IN
                   (best.raised = "no" /\ best.value.model = n)
                        => FEq(res.value[1], Round4(get_best_metric(m).value))

\* C13: when a record trains the model (and each of its trials has its metric
\* entry), get_best_pipeline_by_model returns the numerically largest rounded
\* metric value of the model's trials and the record of the latest trial that
\* has this rounded value; NaN is returned only when every value is NaN.
RoundedOf(m, k) == Round4(ODGet(metrics[m], k))
C13_ByModelIsLargestRounded ==
    QueryPoint =>
        \A m \in DOMAIN metrics : \A n \in ModelIds :
            (Trials(n) # {} /\ Trials(n) \subseteq ODKeys(metrics[m])) =>
                LET res == get_best_pipeline_by_model(n, m)
                    numbers == {k \in Trials(n) : ~IsNaN(RoundedOf(m, k))}
                IN /\ res.raised = "no"
                   /\ IF numbers = {}
                      THEN IsNaN(res.value[1])
                      ELSE /\ \A k \in numbers : RoundedOf(m, k) <= res.value[1]
                           /\ \E k \in numbers :
                                /\ RoundedOf(m, k) = res.value[1]
                                /\ res.value[2] = ODGet(parent_suggestions, k)
                                /\ \A j \in numbers :
                                       RoundedOf(m, j) = res.value[1] => j <= k

\* a step that is one query
IsQuery == nqueries' = nqueries + 1

\* C14: the four queries leave parent_suggestions, metrics, val_scores_, the
\* child score matrix, the counters and the model catalog unchanged, and
\* get_best_pipeline_by_metric(m) called again with no fit call in between
\* returns the same record (or fails in the same way).
C14_QueriesChangeNothing ==
    [][IsQuery =>
            /\ UNCHANGED <<parent_suggestions, metrics, val_scores_, child_val_scores_,
                           parent_iter_, child_iter_, catalog>>
            /\ (answer'.op = "get_best_pipeline_by_metric" /\ answer'.repeats) =>
                    /\ answer'.res.raised = answer.res.raised
                    /\ answer.res.raised = "no" => answer'.res.value = answer.res.value]_vars
\* get_best_pipeline_by_metric returned a record of the fit for the second time
C14_Witness ==
    /\ nqueries = 2
    /\ answer.op = "get_best_pipeline_by_metric"
    /\ answer.repeats
    /\ answer.res.raised = "no"
    /\ answer.res.value \in Range(ODValues(parent_suggestions))

\* C15: the score eval_model_manually gives a trial is 1.0 - value for a
\* metric to maximize and the value itself for a metric to minimize, it is
\* exactly 1.0 when the value is NaN or infinite, and it is always finite.
C15_Normalized ==
    ~cfg.cv_parent_hpo =>
        \A i \in DOMAIN val_scores_ :
            LET score == val_scores_[i][2]
                value == ODGet(metrics[cfg.eval_metric], val_scores_[i][1])
            IN /\ IsFinite(score)
               /\ ~IsFinite(value) => score = One
               /\ (IsFinite(value) /\ MATRIC_TYPES[cfg.eval_metric] = "max")
                    => score = One - value
               /\ (IsFinite(value) /\ MATRIC_TYPES[cfg.eval_metric] = "min")
                    => score = value
\* r2 is the evaluation metric: a trial with r2 in [0, 1] scored 1 - r2 and a
\* trial with a NaN r2 scored 1.0
C15_Witness ==
    /\ cfg.eval_metric = "r2" /\ ~cfg.cv_parent_hpo
    /\ Len(val_scores_) = 2 /\ Len(metrics["r2"]) = 2
    /\ metrics["r2"][1][2] \in 0..One
    /\ val_scores_[1][2] = One - metrics["r2"][1][2]
    /\ IsNaN(metrics["r2"][2][2])
    /\ val_scores_[2][2] = One

\* C16: an object that monitors a metric the Metrics class does not know is
\* never used for a trial: no child trial has run and no record has been
\* appended to parent_suggestions.
C16_UnknownMetricRejected ==
    (\E m \in DOMAIN metrics : m \notin MetricNames) =>
        /\ parent_suggestions = <<>>
        /\ \A p \in DOMAIN child_val_scores_ :
              \A c \in DOMAIN child_val_scores_[p] : IsNaN(child_val_scores_[p][c])

\* a per-feature input override list, the output list or a per-output
\* override list (the last two when outputs are transformed) names a
\* transformation that is not allowed for its role
InvalidListed ==
    LET it == cfg.transforms.input_transformations
        ot == cfg.transforms.output_transformations
    IN \/ /\ it.kind = "dict"
          /\ \E i \in DOMAIN it.names : it.names[i] \notin Range(DEFAULT_TRANSFORMATIONS)
       \/ /\ cfg.transforms.outputs_to_transform # <<>>
          /\ \E i \in DOMAIN ot.names : ot.names[i] \notin Range(DEFAULT_Y_TRANFORMATIONS)
\* the dimensions of param_space that are not the estimator dimension
FeatureDims == SelectSeq(param_space, LAMBDA d : d.name # "estimator")

\* C17: space() raises exactly when a listed name is not allowed for its
\* role; otherwise, per-output mappings included, it returns one categorical
\* dimension for each feature to transform.
C17_SpaceRaisesIffInvalid ==
    nfits >= 1 =>
        /\ (param_space = <<>>) <=> InvalidListed
        /\ ~InvalidListed =>
              [i \in DOMAIN FeatureDims |-> FeatureDims[i].name]
                    = InputsToTransform \o cfg.transforms.outputs_to_transform

\* the dimensions of a space that are named "estimator"
EstimatorDims(sp) == SelectSeq(sp, LAMBDA d : d.name = "estimator")

\* C20: the space a fit builds has exactly one dimension named "estimator",
\* over the current models list, when more than one model is registered, and
\* no such dimension when exactly one model is registered.
C20_EstimatorDimension ==
    [][(nfits' = nfits + 1 /\ pc' = "parent") =>
            /\ Len(models) > 1 =>
                    /\ Len(EstimatorDims(param_space')) = 1
                    /\ EstimatorDims(param_space')[1].categories = Range(models)
            /\ Len(models) = 1 => EstimatorDims(param_space') = <<>>]_vars
\* a second fit, started after add_model made the catalog two models, searches
\* over both; and a fit with one model has no estimator dimension
C20_Witness ==
    /\ nfits = 2 /\ pc = "parent"
    /\ last.op = "fit"
    /\ Len(models) = 2
    /\ ~optimize_estimator
    /\ Len(EstimatorDims(param_space)) = 1
    /\ EstimatorDims(param_space)[1].categories = Range(models)

\* C18: a successful add_model appends the named models to models, gives each
\* a space and the global child budget, and leaves the space and the budget of
\* every other model as they were.
C18_AddModelFrame ==
    [][(IsCall("add_model") /\ last'.status = "ok") =>
            LET names == last'.names IN
            /\ NamesRegistered(names) = {}
            /\ models' = models \o names
            /\ DOMAIN estimator_space' = DOMAIN estimator_space \cup Range(names)
            /\ DOMAIN child_iters' = DOMAIN child_iters \cup Range(names)
            /\ \A n \in Range(names) :
                    estimator_space'[n] \in CallerSpaces /\ child_iters'[n] = ChildIterations
            /\ \A m \in DOMAIN estimator_space : estimator_space'[m] = estimator_space[m]
            /\ \A m \in DOMAIN child_iters : child_iters'[m] = child_iters[m]]_vars
\* B was added after the budget of A had been changed: A keeps its budget and
\* B has the global one
C18_Witness ==
    /\ last.op = "add_model" /\ last.status = "ok" /\ last.names = <<"B">>
    /\ models = <<"A", "B">>
    /\ child_iters["A"] = MaxChildBudget
    /\ child_iters["B"] = ChildIterations
    /\ estimator_space["B"] \in CallerSpaces

\* C19: update_model_space and change_child_iteration raise when a named model
\* is registered nowhere; a call that succeeds changes only the spaces
\* (budgets) of the named models; a call that raises changes nothing.
C19_UpdateFrame ==
    [][(IsCall("update_model_space") \/ IsCall("change_child_iteration")) =>
            LET names == last'.names IN
            /\ (\E i \in DOMAIN names : ~Registered(names[i])) => last'.status = "raised"
            /\ models' = models
            /\ DOMAIN estimator_space' = DOMAIN estimator_space
            /\ DOMAIN child_iters' = DOMAIN child_iters
            /\ \A m \in DOMAIN estimator_space \ Range(names) :
                    estimator_space'[m] = estimator_space[m]
            /\ \A m \in DOMAIN child_iters \ Range(names) : child_iters'[m] = child_iters[m]
            /\ IsCall("update_model_space") => child_iters' = child_iters
            /\ IsCall("change_child_iteration") => estimator_space' = estimator_space
            /\ last'.status = "raised" => UNCHANGED catalog]_vars

\* C21: after construction the keys of metrics are the names given as monitor
\* (the list, the single str, or the default of the mode) together with
\* eval_metric; after a fit that returned with k parent trials every history has
\* exactly k entries.
MonitorNames ==
    IF cfg.monitor.kind = "None" THEN {"r2"} ELSE Range(cfg.monitor.names)
FitReturned == pc = "idle" /\ last = Call("fit", "ok", <<>>)
C21_MetricKeysAndLengths ==
    /\ DOMAIN metrics = MonitorNames \cup {cfg.eval_metric}
    /\ FitReturned => \A m \in DOMAIN metrics : Len(metrics[m]) = parent_iter_

\* a second fit returned: monitor was the str "mse", eval_metric "r2" was added
C21_Witness ==
    /\ FitReturned
    /\ nfits = MaxFits
    /\ cfg.monitor.kind = "str"
    /\ cfg.eval_metric = "r2"
    /\ DOMAIN metrics = {"mse", "r2"}
    /\ \A m \in DOMAIN metrics : Len(metrics[m]) = ParentIterations

\* C22: when building, training or evaluating a child or a parent trial raises,
\* the exception leaves fit: the caller is back, the trial is not run again, no
\* further trial starts, and neither save_results nor the assignment of
\* optimizer happens for that fit.
TrialStep == pc = "child" \/ (pc = "parent" /\ parent_iter_' # parent_iter_)
TrialAborted ==
    /\ pc = "idle"
    /\ last = Call("fit", "raised", <<>>)
    /\ parent_iter_ >= 1
    /\ ~ODHas(val_scores_, parent_iter_)
C22_TrialFailureAbortsFit ==
    [][ /\ (TrialStep /\ last'.status = "raised") =>
             /\ pc' = "idle"
             /\ optimizer' = optimizer /\ optimizer # nfits
             /\ saved' = saved /\ saved # nfits
        /\ (TrialAborted /\ nfits' = nfits) =>
             /\ pc' = "idle"
             /\ parent_iter_' = parent_iter_ /\ child_iter_' = child_iter_
             /\ val_scores_' = val_scores_ /\ child_val_scores_' = child_val_scores_
             /\ optimizer' = optimizer /\ saved' = saved ]_vars

\* the second parent trial of the first fit raised after the first completed
C22_Witness ==
    /\ TrialAborted
    /\ nfits = 1
    /\ parent_iter_ = 2
    /\ Len(val_scores_) = 1
    /\ optimizer = 0
    /\ saved = 0

\* C23: when the Trial Optimizer stops after k completed parent trials, for
\* every 0 <= k < parent_iterations, fit still returns without raising: it
\* persists the results, produces the report and gives control back.
C23_EarlyStopCompletes ==
    [][ (pc = "parent" /\ parent_iter_ < ParentIterations /\ pc' = "idle") =>
            /\ last' = Call("fit", "ok", <<>>)
            /\ optimizer' = nfits
            /\ saved' = nfits ]_vars

\* C24: when the Trial Optimizer runs all its trials and no trial raises, every
\* fit terminates: it runs exactly parent_iterations parent trials, each with
\* exactly _child_iters[model] child trials (none when the budget is 0), and
\* ends with the error table and the child grid saved and optimizer set.
FitDone ==
    /\ pc = "idle"
    /\ parent_iter_ = ParentIterations
    /\ Len(val_scores_) = ParentIterations
    /\ child_iter_ = child_iters[cur]
    /\ optimizer = nfits
    /\ saved = nfits
C24_FitTerminates ==
    /\ [](pc = "parent" /\ parent_iter_ >= 1 => child_iter_ = child_iters[cur])
    /\ [](pc \in {"parent", "child"} => parent_iter_ <= ParentIterations)
    /\ (pc = "parent" /\ parent_iter_ = 0) ~> (FitDone \/ TrialAborted)

\* a second fit is done whose last parent trial had a child budget of 0
C24_Witness ==
    /\ FitDone
    /\ nfits = MaxFits
    /\ child_iters[cur] = 0
    /\ last = Call("fit", "ok", <<>>)

\* C25: during and after every fit child_val_scores_ has parent_iterations rows
\* and as many columns as the largest child budget of the registered models;
\* after the run every cell [p, c] with c at or beyond the budget of the model
\* chosen in parent trial p + 1, and every cell of a row whose parent trial
\* never ran, is NaN.
SinceFit == nfits >= 1 /\ last.op = "fit" /\ DOMAIN child_iters # {}
ThisFit(p) == ODHas(parent_suggestions, p) /\ ODGet(parent_suggestions, p).path[1] = nfits
\* the number of child trials of parent trial p of this fit
ChildTrialsOf(p) ==
    IF ThisFit(p) THEN child_iters[ODGet(parent_suggestions, p).model] ELSE child_iter_
Flags(method) ==
    IF method \in {"log", "log10", "box-cox"} THEN {"treat_negatives", "replace_zeros"}
    ELSE IF method = "sqrt" THEN {"treat_negatives"}
    ELSE {}
ExpectedSpec(feature, method) ==
    [k \in {"method", "features"} \cup Flags(method) |->
        CASE k = "method" -> method
          [] k = "features" -> <<feature>>
          [] OTHER -> TRUE]
ExpectedSpecs(features) ==
    LET Picked(item) == item[1] \in features /\ item[2] # "none"
        picked == SelectSeq(suggestions, Picked)
    IN [i \in DOMAIN picked |-> ExpectedSpec(picked[i][1], picked[i][2])]
TrialRecorded ==
    /\ ODHas(parent_suggestions, parent_iter_)
    /\ ODGet(parent_suggestions, parent_iter_).path = <<nfits, parent_iter_>>
C30_CookedFromSuggestions ==
    TrialRecorded =>
        LET record == ODGet(parent_suggestions, parent_iter_) IN
        /\ record.x_transformation = ExpectedSpecs(Range(InputFeatures))
        /\ record.y_transformation = ExpectedSpecs(Range(OutputFeatures))

\* sqrt for the input x1, log10 for the output y, and a suggested estimator
C30_Witness ==
    /\ TrialRecorded
    /\ suggestions = << <<"x1", "sqrt">>, <<"y", "log10">>, <<"estimator", "A">> >>
    /\ ODGet(parent_suggestions, parent_iter_).x_transformation =
           << [method |-> "sqrt", features |-> <<"x1">>, treat_negatives |-> TRUE] >>
    /\ ODGet(parent_suggestions, parent_iter_).y_transformation =
           << [method |-> "log10", features |-> <<"y">>, treat_negatives |-> TRUE,
               replace_zeros |-> TRUE] >>

\* C26: bfe_best_model_from_scratch called with a model_name builds the model,
\* the x_transformation and the y_transformation of the record that
\* get_best_pipeline_by_model(model_name, metric_name) returns, and the value of
\* the metric in its prefix is the value that query returns.
C26_ScratchBuildsBestOfModel ==
    [][ (IsQuery /\ answer'.op = "bfe_best_model_from_scratch" /\ answer'.model # "None") =>
            LET metric == IF answer'.metric = "None" THEN cfg.eval_metric
                          ELSE answer'.metric
                best == get_best_pipeline_by_model(answer'.model, metric)
            IN best.raised = "no" =>
                  /\ answer'.res.raised = "no"
                  /\ answer'.res.value.model = best.value[2].model
                  /\ answer'.res.value.paras = best.value[2].paras
                  /\ answer'.res.value.x_transformation = best.value[2].x_transformation
                  /\ answer'.res.value.y_transformation = best.value[2].y_transformation
                  /\ answer'.res.value.met_val = Round3(best.value[1]) ]_vars

\* C27: right after the reset at the start of every fit, the first or a later
\* one, both counters are 0, the history of every monitored metric is empty,
\* val_scores_ is empty and every cell of child_val_scores_ is NaN.
C27_ResetClearsRun ==
    [][ (nfits' = nfits + 1 /\ DOMAIN child_iters # {}) =>
            /\ parent_iter_' = 0
            /\ child_iter_' = 0
            /\ \A m \in DOMAIN metrics' : metrics'[m] = <<>>
            /\ val_scores_' = <<>>
            /\ \A p \in DOMAIN child_val_scores_' :
                  \A c \in DOMAIN child_val_scores_'[p] : IsNaN(child_val_scores_'[p][c]) ]_vars

\* C28: each child loop starts with the child counter at 0; the c-th child
\* trial of the p-th parent trial writes the cell [p-1, c-1] of
\* child_val_scores_ (row p, cell c here) and no other; every such write is
\* inside the matrix, also after change_child_iteration, add_model or
\* remove_model before the fit.
ChildStep == pc = "child" /\ child_iter_' = child_iter_ + 1
C28_ChildWritesOwnCell ==
    [][ /\ (pc = "parent" /\ pc' = "child") => child_iter_' = 0
        /\ ChildStep =>
              /\ parent_iter_ \in DOMAIN child_val_scores_
              /\ child_iter_' \in DOMAIN child_val_scores_[parent_iter_]
              /\ DOMAIN child_val_scores_' = DOMAIN child_val_scores_
              /\ \A p \in DOMAIN child_val_scores_ :
                    /\ DOMAIN child_val_scores_'[p] = DOMAIN child_val_scores_[p]
                    /\ \A c \in DOMAIN child_val_scores_[p] :
                          <<p, c>> # <<parent_iter_, child_iter_'>> =>
                              child_val_scores_'[p][c] = child_val_scores_[p][c]
              /\ (pc' = "child" /\ ~cfg.cv_child_hpo) =>
                    ~IsNaN(child_val_scores_'[parent_iter_][child_iter_'])
        /\ (~ChildStep /\ nfits' = nfits) => child_val_scores_' = child_val_scores_ ]_vars

\* the second child trial of the second parent trial wrote its cell, the budget
\* of its model having been raised before the fit
C28_Witness ==
    /\ pc = "child"
    /\ nops = 1
    /\ parent_iter_ = 2
    /\ child_iter_ = 2
    /\ child_iters[cur] = MaxChildBudget
    /\ ~cfg.cv_child_hpo
    /\ ~IsNaN(child_val_scores_[2][2])

\* C29: within a run the records are keyed 1, 2, 3, ..., one more per parent
\* trial, and a record once inserted is never overwritten, changed or removed
\* by any later operation: later trials, queries, catalog calls or later fit
\* calls.
Content(record) == [k \in DOMAIN record \ {"path"} |-> record[k]]
RunKeys == {k \in ODKeys(parent_suggestions) : ThisFit(k)}
====
